---- MODULE Spec2Model ----
(***************************************************************************)
(* Model of gpd::event (src/event.hpp, the GPD_EVENT_IMPL_WAITFREE         *)
(* variant selected at line 34): one producer thread calling signal() and  *)
(* one consumer thread calling try_wait(), wait() and dismiss_wait() on    *)
(* the same event.  Every atomic access of event::state is one step, so    *)
(* that the two threads interleave between the load and the CAS of         *)
(* try_wait / dismiss_wait and between the exchange and the callback of    *)
(* signal.                                                                 *)
(***************************************************************************)
EXTENDS Integers, Sequences, FiniteSets, TLC

\* ---- bounds of the model ------------------------------------------------
MaxSignals == 2        \* number of signal() calls the producer makes
MaxConsumerOps == 4    \* number of try_wait/wait/dismiss_wait calls
MaxListeners == 4      \* add_listener calls (shared_future objects made)
MaxYields == 3         \* times the functor switches back before it ends

\* ---- pointer values of std::atomic<waiter*> state -------------------------
empty == "null"                  \* static constexpr waiter* empty = 0
signaled == "noop_waiter"        \* static constexpr waiter* signaled = &noop_waiter
\* the waiters a consumer registers: "waited is any value non empty non
\* signaled" (line 131); delete_waiter is the other waiter of the header and
\* latch stands for a consumer-owned waiter such as a CountdownLatch
Waiters == {"delete_waiter", "latch"}

VARIABLES
    state,      \* event::state, the atomic waiter pointer
    ppc,        \* producer position inside signal()
    pw,         \* local w of signal(): the value the exchange returned
    preg,       \* registration the exchange of signal() observed (0: none)
    signals,    \* signal() calls started
    cpc,        \* consumer position inside try_wait / wait / dismiss_wait
    cw,         \* argument w of the running consumer call
    cold,       \* local old_w / w of the running consumer call (get_waiter())
    cops,       \* consumer calls started
    regs,       \* registrations made: regs[r] is the waiter of registration r
    exch,       \* log of the exchanges of signal(): value replaced, registration
    calls,      \* log of waiter::signal(event_ptr) invocations
    rets,       \* log of returned consumer calls
    owners      \* holders of an owning event_ptr (or of the constructed event)

evars == <<state, ppc, pw, preg, signals, cpc, cw, cold, cops, regs, exch,
           calls, rets, owners>>

\* ---- composite waits over a range of events (lines 98-124, 333-377) ---------
VARIABLES
    mode,           \* what the consumer runs: "wait_all" or "wait_any"
    range,          \* the range of event pointers; 0 is a null pointer
    events,         \* events[e]: the state word of event e
    will,           \* the events whose producer calls signal()
    prod,           \* prod[e]: position of the producer of e inside signal()
    prodw,          \* prodw[e]: local w of that signal()
    count,          \* the count of the CountdownLatch
    mpc,            \* consumer position inside wait_all_adl / wait_any_adl
    it,             \* the iterator i of the running wait_many / dismiss_wait_many
    loaded,         \* old_w / w: the pointer get_waiter() returned for *i
    signaled_count, \* 'signaled' of wait_many and of wait_any_adl
    waited_count,   \* 'waited' of wait_many, wait_all_adl and wait_any_adl
    dismissed,      \* 'count' of dismiss_wait_many, 'dismissed' of wait_any_adl
    pending,        \* 'pending' of wait_any_adl
    tw,             \* log of the try_wait calls of wait_many: index, result
    dw              \* log of the dismiss_wait calls of dismiss_wait_many

mvars == <<mode, range, events, will, prod, prodw, count, mpc, it, loaded,
           signaled_count, waited_count, dismissed, pending, tw, dw>>

\* the Dekker-like / mixed-atomics event, its producer and its consumer
VARIABLES
    impl,           \* GPD_EVENT_IMPL: "DEKKER_LIKE" or "MIXED_ATOMICS"
    pair_signaled,  \* pair.signaled
    pair_waited,    \* pair.waited
    was_waited,     \* bool was_waited
    vppc,           \* position of the producer inside signal()
    old_waited,     \* signal's local w / old.waited
    old_signaled,   \* signal's local old.signaled (mixed atomics)
    vcpc,           \* position of the consumer
    vcw,            \* the waiter argument of the consumer's call
    vops,           \* consumer calls started
    ref,            \* a wait-free event that receives the same calls
    poverlap,       \* the running signal() overlapped a consumer call
    coverlap,       \* the running consumer call overlapped signal()
    vsig,           \* what signal() did and what the wait-free signal does
    vret            \* what the last consumer call returned, and the wait-free result

vvars == <<impl, pair_signaled, pair_waited, was_waited, vppc, old_waited,
           old_signaled, vcpc, vcw, vops, ref, poverlap, coverlap, vsig, vret>>


\* the shared_state_multiplexer, the source future and the listeners
VARIABLES
    src_state,      \* the state of the source future's shared state (an event)
    listeners,      \* std::deque<promise<bool>> listeners
    tmp_listeners,  \* signal's local tmp_listeners
    taken,          \* the promises signal took from the queue
    set_values,     \* set_value(true) calls made on each promise
    stored,         \* the result state has been moved into the multiplexer
    spc,            \* position of the constructor / of signal
    si,             \* position of signal's loop in tmp_listeners
    made,           \* promises made by add_listener
    constructed,    \* the multiplexer's constructor has returned
    late,           \* promises made after signal returned
    mux,            \* std::mutex mux: the thread that holds it
    apc             \* position of the thread inside add_listener

svars == <<src_state, listeners, tmp_listeners, taken, set_values, stored, spc,
           si, made, constructed, late, mux, apc>>

\* one continuation made by create_context, run to its end
VARIABLES
    kpc,            \* position of the one thread of control
    on,             \* the stack execution is on
    allocated,      \* alloc.allocate calls
    deallocated,    \* runs of the deleter (alloc.deallocate calls)
    freed_on,       \* the stack execution was on when the deleter ran
    sp,             \* startup_trampoline's sp: the stack to go to at the end
    excp,           \* cleanup_args.excp
    cleanup_args_on,\* the stack that holds cleanup_args
    exit_kind,      \* how the functor ended
    thrown,         \* the exception the functor threw
    exit_to,        \* the continuation the functor returned or threw
    inflight,       \* the exception rethrown by cleanup_trampoline
    surfaced,       \* the exception that reached the code on the destination
    g,              \* cleanup_trampoline's guard g is alive
    yields,         \* switches from the functor back to its holder
    terminated      \* the continuation of the coroutine is terminated()

kvars == <<kpc, on, allocated, deallocated, freed_on, sp, excp, cleanup_args_on,
           exit_kind, thrown, exit_to, inflight, surfaced, g, yields, terminated>>

\* the continuation objects of that run and the values they carry
VARIABLES
    pairs,          \* switch_pair pair of every continuation object
    cpair,          \* the switch_pair a pilfer() in progress has taken
    tuples,         \* std::tuple<Args...> p of the operator() suspended on a
                    \* stack (0: none)
    robj,           \* the object the holder's pending operation stores into
    sent,           \* the values the functor passed to its holder
    observed,       \* the values the holder took with operator*
    arg,            \* the value of the holder's last resume (0: none)
    got,            \* the value the functor took after that resume (0: none)
    wec,            \* with_escape_continuation is on the functor's stack: its c
    ptr,            \* abnormal_exit_exception::ptr of the exception in flight
    sx,             \* signal_exit has been called
    asserts         \* the assertions that failed

ovars == <<pairs, cpair, tuples, robj, sent, observed, arg, got, wec, ptr, sx,
           asserts>>

vars == <<evars, mvars, vvars, svars, kvars, ovars>>

\* what the single-event operations / the composite waits leave alone
notEvent == <<mvars, vvars, svars, kvars, ovars>>
notMany == <<evars, vvars, svars, kvars, ovars>>
notVariant == <<evars, mvars, svars, kvars, ovars>>
notMux == <<evars, mvars, vvars, kvars, ovars>>
notCont == <<evars, mvars, vvars, svars>>

\* ---- bookkeeping of registrations -------------------------------------------
\* the registration a pointer value read from state belongs to: the consumer
\* is one thread, so a waiter found in state is its latest registration
Registration(v) == IF v \in Waiters THEN Len(regs) ELSE 0

\* the consumer's latest registration unless a dismiss_wait already returned
\* true for it (0: the consumer has no registration outstanding)
Outstanding ==
    IF Len(regs) > 0
       /\ \A j \in DOMAIN rets :
             ~(rets[j].op = "dismiss_wait" /\ rets[j].ret /\ rets[j].reg = Len(regs))
    THEN Len(regs) ELSE 0

\* ---- the atomic operations ------------------------------------------------
\* state.exchange(signaled): the value stored; the old value is returned
exchangeKeeps(old) == old
exchange(old) == signaled

\* if (w) ... in signal(): every non-null old value is dispatched,
\* the sentinel &noop_waiter included
dispatchedNever(w) == FALSE
dispatched(w) == w # empty

\* state.compare_exchange_strong(expected, desired) on current value cur_v
casFailsSpuriously(cur_v, expected, desired) == [ok |-> FALSE, new |-> cur_v]
casAlways(cur_v, expected, desired) == [ok |-> TRUE, new |-> desired]
casNoStore(cur_v, expected, desired) == [ok |-> cur_v = expected, new |-> cur_v]
compare_exchange_strong(cur_v, expected, desired) ==
    IF cur_v = expected THEN [ok |-> TRUE, new |-> desired]
                        ELSE [ok |-> FALSE, new |-> cur_v]

\* try_wait: old_w != signaled && state.compare_exchange_strong(old_w, w)
tryWaitIgnoresSignaled(cur_v, old_w, w) ==
    compare_exchange_strong(cur_v, cur_v, w)
try_wait(cur_v, old_w, w) ==
    IF old_w = signaled THEN [ok |-> FALSE, new |-> cur_v]
    ELSE compare_exchange_strong(cur_v, old_w, w)

\* dismiss_wait: w == 0 || (w != signaled && state.compare_exchange_strong(w, empty))
dismissNoSignaledCheck(cur_v, w) ==
    IF w = empty THEN [ok |-> TRUE, new |-> cur_v]
    ELSE compare_exchange_strong(cur_v, w, empty)
dismissIgnoresCasFailure(cur_v, w) ==
    IF w = empty THEN [ok |-> TRUE, new |-> cur_v]
    ELSE IF w = signaled THEN [ok |-> FALSE, new |-> cur_v]
    ELSE [ok |-> TRUE, new |-> compare_exchange_strong(cur_v, w, empty).new]
dismissAlwaysTrue(cur_v, w) ==
    [ok |-> TRUE, new |-> IF cur_v = w /\ w \in Waiters THEN empty ELSE cur_v]
dismissFalseOnEmpty(cur_v, w) ==
    IF w = empty \/ w = signaled THEN [ok |-> FALSE, new |-> cur_v]
    ELSE compare_exchange_strong(cur_v, w, empty)
dismiss_wait(cur_v, w) ==
    IF w = empty THEN [ok |-> TRUE, new |-> cur_v]
    ELSE IF w = signaled THEN [ok |-> FALSE, new |-> cur_v]
    ELSE compare_exchange_strong(cur_v, w, empty)

\* no single-event producer or consumer is running
EventOff ==
    /\ state = empty
    /\ ppc = "off" /\ pw = empty /\ preg = 0 /\ signals = 0
    /\ cpc = "off" /\ cw = empty /\ cold = empty /\ cops = 0
    /\ regs = <<>> /\ exch = <<>>
    /\ calls = <<>> /\ rets = <<>>
    /\ owners = {}

\* the composite-wait machinery is not running
ManyOff ==
    /\ mode = "off" /\ range = <<>> /\ events = <<>> /\ will = {}
    /\ prod = <<>> /\ prodw = <<>> /\ count = 0 /\ mpc = "off" /\ it = 0
    /\ loaded = empty /\ signaled_count = 0 /\ waited_count = 0
    /\ dismissed = 0 /\ pending = 0 /\ tw = <<>> /\ dw = <<>>

\* no variant event is running
VariantOff ==
    /\ impl = "off" /\ pair_signaled = "empty" /\ pair_waited = empty
    /\ was_waited = FALSE
    /\ vppc = "off" /\ old_waited = empty /\ old_signaled = "empty"
    /\ vcpc = "off" /\ vcw = empty /\ vops = 0
    /\ ref = empty /\ poverlap = FALSE /\ coverlap = FALSE
    /\ vsig = [done |-> FALSE, fired |-> empty, want |-> empty, overlapped |-> FALSE]
    /\ vret = [op |-> "none", ret |-> FALSE, want |-> FALSE, overlapped |-> FALSE]

\* no multiplexer exists
MuxOff ==
    /\ src_state = empty
    /\ listeners = <<>> /\ tmp_listeners = <<>> /\ taken = <<>>
    /\ set_values = <<>> /\ stored = FALSE
    /\ spc = "off" /\ si = 0 /\ made = 0 /\ constructed = FALSE
    /\ late = {} /\ mux = "free" /\ apc = "off"

\* the stacks, the continuation objects and the values of the continuation model
null == "null"
Stacks == {"creator", "coroutine", "other"}
Objects == {"c", "c2", "fc", "fo", "exit_to", "nested", "sc", "lc"}
\* switch_pair{{0}, 0}
nullpair == [sp |-> null, parm |-> null]

\* no continuation exists
ContOff ==
    /\ kpc = "off" /\ on = "creator"
    /\ allocated = 0 /\ deallocated = 0 /\ freed_on = "null"
    /\ sp = "null" /\ excp = "null" /\ cleanup_args_on = "null"
    /\ exit_kind = "none" /\ thrown = "null" /\ exit_to = "null"
    /\ inflight = "null" /\ surfaced = "null"
    /\ g = FALSE /\ yields = 0 /\ terminated = FALSE
    /\ pairs = [o \in Objects |-> nullpair] /\ cpair = nullpair
    /\ tuples = [s \in Stacks |-> 0] /\ robj = "c"
    /\ sent = <<>> /\ observed = <<>> /\ arg = 0 /\ got = 0
    /\ wec = null /\ ptr = null /\ sx = FALSE /\ asserts = {}

\* each specification runs one part of the library; the rest stays off
OnlyEvent == ManyOff /\ VariantOff /\ MuxOff /\ ContOff
OnlyMany == EventOff /\ VariantOff /\ MuxOff /\ ContOff
OnlyVariant == EventOff /\ ManyOff /\ MuxOff /\ ContOff
OnlyMux == EventOff /\ ManyOff /\ VariantOff /\ ContOff
OnlyCont == EventOff /\ ManyOff /\ VariantOff /\ MuxOff

\* ---- construction -----------------------------------------------------------
\* event(bool empty = true) : state(empty ? event::empty : signaled)
Init ==
    /\ state \in {empty, signaled}
    /\ ppc = "idle" /\ pw = empty /\ preg = 0 /\ signals = 0
    /\ cpc = "idle" /\ cw = empty /\ cold = empty /\ cops = 0
    /\ regs = <<>> /\ exch = <<>>
    /\ calls = <<>> /\ rets = <<>>
    /\ owners = {"producer"}
    /\ OnlyEvent

\* ---- producer: signal() ---------------------------------------------------
\* auto w = state.exchange(signaled);
signal_exchange ==
    /\ ppc = "idle" /\ signals < MaxSignals
    /\ pw' = state
    /\ state' = exchange(state)
    /\ preg' = Registration(state)
    /\ exch' = Append(exch, [old |-> state, reg |-> Registration(state)])
    /\ signals' = signals + 1
    /\ ppc' = "invoke"
    /\ UNCHANGED <<cpc, cw, cold, cops, regs, calls, rets, owners>>
    /\ UNCHANGED notEvent

\* if (w) w->signal(event_ptr(this));   and return
\* noop_waiter_t::signal releases the pointer: nobody becomes an owner.
\* Any other waiter receives the event from the signaling owner.
signal_invoke ==
    /\ ppc = "invoke"
    /\ IF dispatched(pw)
       THEN /\ calls' = Append(calls, [w |-> pw, by |-> "signal", reg |-> preg, op |-> signals])
            /\ owners' = IF pw = signaled THEN owners
                         ELSE (owners \ {"producer"}) \cup {pw}
       ELSE UNCHANGED <<calls, owners>>
    /\ ppc' = "idle"
    /\ UNCHANGED <<state, pw, preg, signals, cpc, cw, cold, cops, regs, exch, rets>>
    /\ UNCHANGED notEvent

\* ---- consumer: try_wait(w) --------------------------------------------------
\* Pre: state != waited (line 71): the consumer holds no registration.
\* auto old_w = get_waiter();
try_wait_load(w) ==
    /\ cpc = "idle" /\ cops < MaxConsumerOps
    /\ state \notin Waiters
    /\ cw' = w /\ cold' = state
    /\ cops' = cops + 1
    /\ cpc' = "try_wait_cas"
    /\ UNCHANGED <<state, ppc, pw, preg, signals, regs, exch, calls, rets, owners>>
    /\ UNCHANGED notEvent

\* return (old_w != signaled && state.compare_exchange_strong(old_w, w));
\* (a compare-exchange in a retry loop: what try_wait does not do)
try_wait_cas_retry ==
    /\ cpc = "try_wait_cas"
    /\ LET r == try_wait(state, cold, cw) IN
        IF ~r.ok /\ cold # signaled
        THEN /\ cold' = state
             /\ UNCHANGED <<state, regs, rets, cpc>>
        ELSE /\ state' = r.new
             /\ regs' = IF r.ok THEN Append(regs, cw) ELSE regs
             /\ rets' = Append(rets, [op |-> "try_wait", w |-> cw, ret |-> r.ok,
                                      seen |-> state,
                                      reg |-> IF r.ok THEN Len(regs) + 1 ELSE 0])
             /\ cpc' = "idle"
             /\ UNCHANGED cold
    /\ UNCHANGED <<ppc, pw, preg, signals, cw, cops, exch, calls, owners>>
    /\ UNCHANGED notEvent
try_wait_cas ==
    /\ cpc = "try_wait_cas"
    /\ LET r == try_wait(state, cold, cw) IN
        /\ state' = r.new
        /\ regs' = IF r.ok THEN Append(regs, cw) ELSE regs
        /\ rets' = Append(rets, [op |-> "try_wait", w |-> cw, ret |-> r.ok,
                                 seen |-> state,
                                 reg |-> IF r.ok THEN Len(regs) + 1 ELSE 0])
    /\ cpc' = "idle"
    /\ UNCHANGED <<ppc, pw, preg, signals, cw, cold, cops, exch, calls, owners>>
    /\ UNCHANGED notEvent

\* ---- consumer: wait(w) ------------------------------------------------------
\* if (!try_wait(w)) ... : the load of try_wait
wait_load(w) ==
    /\ cpc = "idle" /\ cops < MaxConsumerOps
    /\ state \notin Waiters
    /\ cw' = w /\ cold' = state
    /\ cops' = cops + 1
    /\ cpc' = "wait_cas"
    /\ UNCHANGED <<state, ppc, pw, preg, signals, regs, exch, calls, rets, owners>>
    /\ UNCHANGED notEvent

\* the CAS of try_wait inside wait; wait returns when try_wait returned true
wait_cas ==
    /\ cpc = "wait_cas"
    /\ LET r == try_wait(state, cold, cw) IN
        /\ state' = r.new
        /\ IF r.ok
           THEN /\ regs' = Append(regs, cw)
                /\ rets' = Append(rets, [op |-> "wait", w |-> cw, ret |-> TRUE,
                                         seen |-> state, reg |-> Len(regs) + 1])
                /\ cpc' = "idle"
           ELSE /\ UNCHANGED <<regs, rets>>
                /\ cpc' = "wait_invoke"
    /\ UNCHANGED <<ppc, pw, preg, signals, cw, cold, cops, exch, calls, owners>>
    /\ UNCHANGED notEvent

\* w->signal(event_ptr(this));   and return
\* a second owning pointer is made from this: nobody hands the event over
wait_invoke ==
    /\ cpc = "wait_invoke"
    /\ calls' = Append(calls, [w |-> cw, by |-> "wait", reg |-> 0, op |-> cops])
    /\ owners' = owners \cup {cw}
    /\ rets' = Append(rets, [op |-> "wait", w |-> cw, ret |-> FALSE,
                             seen |-> state, reg |-> 0])
    /\ cpc' = "idle"
    /\ UNCHANGED <<state, ppc, pw, preg, signals, cw, cold, cops, regs, exch>>
    /\ UNCHANGED notEvent

\* ---- consumer: dismiss_wait(w) ----------------------------------------------
\* auto w = get_waiter();   (the waiter argument is unnamed and unused)
dismiss_wait_load(w) ==
    /\ cpc = "idle" /\ cops < MaxConsumerOps
    /\ cw' = w /\ cold' = state
    /\ cops' = cops + 1
    /\ cpc' = "dismiss_wait_cas"
    /\ UNCHANGED <<state, ppc, pw, preg, signals, regs, exch, calls, rets, owners>>
    /\ UNCHANGED notEvent

\* return w == 0 || (w != signaled && state.compare_exchange_strong(w, empty));
dismiss_wait_cas ==
    /\ cpc = "dismiss_wait_cas"
    /\ LET r == dismiss_wait(state, cold) IN
        /\ state' = r.new
        /\ rets' = Append(rets, [op |-> "dismiss_wait", w |-> cw, ret |-> r.ok,
                                 seen |-> state,
                                 reg |-> IF cold # empty THEN Outstanding ELSE 0])
    /\ cpc' = "idle"
    /\ UNCHANGED <<ppc, pw, preg, signals, cw, cold, cops, regs, exch, calls, owners>>
    /\ UNCHANGED notEvent

Next ==
    \/ signal_exchange
    \/ signal_invoke
    \/ \E w \in Waiters : try_wait_load(w)
    \/ try_wait_cas
    \/ \E w \in Waiters : wait_load(w)
    \/ wait_cas
    \/ wait_invoke
    \/ \E w \in Waiters : dismiss_wait_load(w)
    \/ dismiss_wait_cas

Spec == Init /\ [][Next]_vars

\* the producer thread, once inside signal(), runs it to its end, and the
\* producer does signal: the proviso of the liveness claims
FairSpec == Spec /\ WF_vars(signal_exchange) /\ WF_vars(signal_invoke)

\* ---- vocabulary of the properties -------------------------------------------
ProducerExchanges == ppc = "idle" /\ ppc' = "invoke"
SignalReturns == ppc = "invoke" /\ ppc' = "idle"
TryWaitReturns == cpc = "try_wait_cas" /\ cpc' = "idle"
WaitCas == cpc = "wait_cas" /\ cpc' # cpc
WaitInvokes == cpc = "wait_invoke" /\ cpc' = "idle"
DismissReturns == cpc = "dismiss_wait_cas" /\ cpc' = "idle"
LastRet == rets'[Len(rets')]

\* callbacks signal() made for registration r
Fired(r) == Cardinality({i \in DOMAIN calls : calls[i].by = "signal" /\ calls[i].reg = r})
\* exchanges of signal() that found the waiter of registration r
Observed(r) == Cardinality({i \in DOMAIN exch : exch[i].reg = r})
\* dismiss_wait calls that returned true for registration r
Dismissed(r) ==
    Cardinality({i \in DOMAIN rets : rets[i].op = "dismiss_wait" /\ rets[i].ret
                                        /\ rets[i].reg = r})
\* signal() has exchanged the waiter of registration r out and not yet called it
Pending(r) == ppc = "invoke" /\ preg = r /\ r > 0
\* all invocations of waiter w on this event
Invoked(w) == Cardinality({i \in DOMAIN calls : calls[i].w = w})

\* ---- C1 ---------------------------------------------------------------------
C1Step ==
    /\ state' # state =>
         \/ state = empty /\ state' \in Waiters /\ (TryWaitReturns \/ WaitCas)
         \/ state = empty /\ state' = signaled /\ ProducerExchanges
         \/ state \in Waiters /\ state' = signaled /\ ProducerExchanges
         \/ state \in Waiters /\ state' = empty /\ DismissReturns
    /\ state = signaled => state' = signaled

C2Step ==
    /\ ProducerExchanges => state' = signaled /\ pw' = state
    /\ SignalReturns =>
         /\ state = signaled /\ state' = signaled
         /\ pw \in Waiters =>
              /\ Len(calls') = Len(calls) + 1
              /\ calls'[Len(calls')].w = pw /\ calls'[Len(calls')].by = "signal"
              /\ pw \in owners'
         /\ pw = empty => calls' = calls /\ owners' = owners /\ "producer" \in owners'
    /\ (ppc' = ppc /\ ppc = "invoke") =>
         \A i \in DOMAIN calls' : i > Len(calls) => calls'[i].by # "signal"

\* C2: signal() always leaves the event Signaled; when the exchange replaced
\* Waited(w) it calls w.signal(event) exactly once before it returns; when it
\* replaced Empty it calls nothing and the caller keeps the event.
C2_SignalDelivers == [][C2Step]_vars

\* one signal() found a registered waiter and called it, another found none
C2_Witness ==
    /\ ppc = "idle" /\ Len(exch) = 2
    /\ exch[1].old \in Waiters /\ Fired(exch[1].reg) = 1
    /\ \E i \in DOMAIN calls : calls[i].by = "signal" /\ calls[i].w = exch[1].old

\* ---- C3 ---------------------------------------------------------------------
C3Step ==
    /\ (cpc = "idle" /\ cpc' = "try_wait_cas") =>
         state' = state /\ calls' = calls /\ regs' = regs
    /\ TryWaitReturns =>
         /\ calls' = calls
         /\ state = empty =>
              state' = cw /\ cw \in Waiters /\ LastRet.ret /\ regs' = Append(regs, cw)
         /\ state = signaled =>
              state' = signaled /\ ~LastRet.ret /\ regs' = regs

SyncCalls(k) ==
    Cardinality({i \in DOMAIN calls' : calls'[i].by = "wait" /\ calls'[i].op = k})

C4Step ==
    /\ (WaitCas /\ state = empty) =>
         /\ state' = cw /\ regs' = Append(regs, cw) /\ calls' = calls
         /\ cpc' = "idle" /\ LastRet.op = "wait" /\ LastRet.ret
         /\ SyncCalls(cops) = 0
    /\ (WaitCas /\ state = signaled) =>
         state' = signaled /\ regs' = regs /\ calls' = calls /\ rets' = rets
            /\ cpc' = "wait_invoke"
    /\ WaitInvokes =>
         /\ state = signaled /\ state' = signaled /\ regs' = regs
         /\ calls' = Append(calls, [w |-> cw, by |-> "wait", reg |-> 0, op |-> cops])
         /\ LastRet.op = "wait" /\ ~LastRet.ret
         /\ SyncCalls(cops) = 1

\* C4: wait(w) registers w as try_wait does when the event is not Signaled;
\* when its try_wait returns false it calls w.signal(event) exactly once before
\* it returns and the event stays Signaled.
C4_Wait == [][C4Step]_vars

\* one wait() registered its waiter, another called its waiter itself
C4_Witness ==
    \E i, j \in DOMAIN rets :
        /\ rets[i].op = "wait" /\ rets[i].ret /\ rets[i].reg > 0
        /\ rets[j].op = "wait" /\ ~rets[j].ret
        /\ \E k \in DOMAIN calls : calls[k].by = "wait" /\ calls[k].w = rets[j].w

\* ---- C5 ---------------------------------------------------------------------
C5Step ==
    (DismissReturns /\ cold = state) =>
        /\ state \in Waiters => state' = empty /\ LastRet.ret
        /\ state = empty => state' = empty /\ LastRet.ret
        /\ state = signaled => state' = signaled /\ ~LastRet.ret

\* C5: dismiss_wait with no signal between its load and its CAS: on Waited it
\* makes the state Empty and returns true, on Empty it returns true and the
\* state stays Empty, on Signaled it returns false and the state stays Signaled.
C5_DismissWait == [][C5Step]_vars

\* dismiss_wait has returned on a Waited, on an Empty and on a Signaled event
C5_Witness ==
    \E i, j, k \in DOMAIN rets :
        /\ rets[i].op = "dismiss_wait" /\ rets[i].seen \in Waiters /\ rets[i].ret
        /\ rets[j].op = "dismiss_wait" /\ rets[j].seen = empty /\ rets[j].ret
        /\ rets[k].op = "dismiss_wait" /\ rets[k].seen = signaled /\ ~rets[k].ret

\* ---- C6 ---------------------------------------------------------------------
\* C6: the callback of a registration is called by signal() at most once, and
\* once signal() has returned it has been called exactly once for every
\* exchange that found that registration's waiter (none is found twice); the
\* callback goes to the waiter that was registered.
C6_AtMostOnce ==
    /\ \A r \in DOMAIN regs :
         /\ Fired(r) <= 1
         /\ Observed(r) <= 1
         /\ Fired(r) + (IF Pending(r) THEN 1 ELSE 0) = Observed(r)
    /\ \A i \in DOMAIN calls :
         (calls[i].by = "signal" /\ calls[i].w \in Waiters) =>
            calls[i].reg \in DOMAIN regs /\ regs[calls[i].reg] = calls[i].w

\* a registration was delivered by the first signal() and a second signal()
\* has run to its end after it
C6_Witness ==
    /\ signals = 2 /\ ppc = "idle"
    /\ \E r \in DOMAIN regs : Fired(r) = 1 /\ Observed(r) = 1

\* ---- C7 ---------------------------------------------------------------------
Resolved(r) == Fired(r) + Dismissed(r)

C8_DismissExcludesDelivery ==
    \A r \in DOMAIN regs :
        Dismissed(r) >= 1 => Fired(r) = 0 /\ Observed(r) = 0 /\ ~Pending(r)

\* a registration was dismissed and the producer has signaled to the end since
C8_Witness ==
    /\ \E r \in DOMAIN regs : Dismissed(r) = 1
    /\ state = signaled /\ signals >= 1 /\ ppc = "idle"

C10_SingleOwner ==
    /\ Cardinality(owners) = 1
    /\ Cardinality({i \in DOMAIN calls : calls[i].w \in Waiters}) <= 1

\* ---- C15: wait-freedom of the primary event ---------------------------------
\* a step of the consumer thread / of the producer thread
ConsumerStep == <<cpc, cw, cold, cops, regs, rets>>' # <<cpc, cw, cold, cops, regs, rets>>
ProducerStep == <<ppc, pw, preg, signals, exch>>' # <<ppc, pw, preg, signals, exch>>

\* own steps a call still has to take from a program position
StepsLeft(pc) ==
    CASE pc = "idle" -> 0
      [] pc = "invoke" -> 1
      [] pc = "try_wait_cas" -> 1
      [] pc = "dismiss_wait_cas" -> 1
      [] pc = "wait_invoke" -> 1
      [] pc = "wait_cas" -> 2

C15Step ==
    /\ ConsumerStep /\ cpc # "idle" => StepsLeft(cpc') < StepsLeft(cpc)
    /\ ConsumerStep /\ cpc = "idle" => StepsLeft(cpc') <= 2 /\ state' = state
    /\ ConsumerStep /\ cpc = "wait_invoke" => state' = state
    /\ ProducerStep /\ ppc # "idle" => StepsLeft(ppc') < StepsLeft(ppc) /\ state' = state
    /\ ProducerStep /\ ppc = "idle" => StepsLeft(ppc') <= 1

\* every call that has started can take its next step at once
C15NeverBlocks ==
    /\ ppc = "invoke" => ENABLED signal_invoke
    /\ cpc = "try_wait_cas" => ENABLED try_wait_cas
    /\ cpc = "dismiss_wait_cas" => ENABLED dismiss_wait_cas
    /\ cpc = "wait_cas" => ENABLED wait_cas
    /\ cpc = "wait_invoke" => ENABLED wait_invoke

\* C15: signal, try_wait and dismiss_wait (and wait) take a bounded number of
\* their own steps whatever the other thread does: every step inside a call
\* brings the call nearer to its return (there is no retry or spin loop), at
\* most one step of a call is a read-modify-write of the state (the exchange of
\* signal, the single compare-exchange of try_wait / dismiss_wait), and a call
\* that has started is never kept from taking its next step.
C15_WaitFree == []C15NeverBlocks /\ [][C15Step]_vars

\* a try_wait whose compare-exchange failed because signal() ran between its
\* load and its compare-exchange has returned (false) without a retry
C15_Witness ==
    /\ cpc = "idle" /\ Len(rets) > 0
    /\ rets[Len(rets)].op = "try_wait" /\ ~rets[Len(rets)].ret
    /\ cold = empty /\ rets[Len(rets)].seen = signaled

\* ---- C26 --------------------------------------------------------------------
\* C26: a try_wait (alone or inside wait) that fails leaves no registration
\* and is looking at a Signaled event, also when its compare-exchange lost
\* against a signal() that ran after its load; wait(w) is about to call w
\* itself only on a Signaled event, and every call wait made itself belongs
\* to a wait that registered nothing.
C26_FalseOnlySignaled ==
    /\ \A k \in DOMAIN rets :
         (rets[k].op \in {"try_wait", "wait"} /\ ~rets[k].ret) =>
            rets[k].seen = signaled /\ rets[k].reg = 0
    /\ cpc = "wait_invoke" => state = signaled
    /\ \A i \in DOMAIN calls :
         calls[i].by = "wait" =>
            /\ calls[i].op \in DOMAIN rets
            /\ rets[calls[i].op].op = "wait"
            /\ ~rets[calls[i].op].ret
            /\ rets[calls[i].op].reg = 0
            /\ rets[calls[i].op].seen = signaled

\* a wait(w) loaded Empty, lost its compare-exchange against signal() and
\* called w itself
C26_Witness ==
    /\ cpc = "idle" /\ Len(rets) > 0
    /\ rets[Len(rets)].op = "wait" /\ ~rets[Len(rets)].ret
    /\ cold = empty
    /\ \E i \in DOMAIN calls : calls[i].by = "wait" /\ calls[i].op = Len(rets)

\* ==== composite waits: wait_many, dismiss_wait_many, wait_all, wait_any ========
NEvents == 2           \* events (and entries of the range)

\* the CountdownLatch the consumer passes as waiter to every event
latch == "latch"

\* inline event * get_event(event *e) { return e; }
get_event(x) == x

\* for (auto i = begin; i != end; ++i) if (auto e = get_event(*i)) ... :
\* the first position at or after i that holds a non-null event
NextEvent(i) ==
    LET hits == {j \in i..Len(range) : get_event(range[j]) # 0} IN
    IF hits = {} THEN Len(range) + 1
    ELSE CHOOSE j \in hits : \A k \in hits : j <= k

\* (e->try_wait(w) ? waited : signaled)++;  on the pair <<signaled, waited>>
countOnlyWaited(ok, c) == IF ok THEN <<c[1], c[2] + 1>> ELSE c
count_try_wait(ok, c) ==
    IF ok THEN <<c[1], c[2] + 1>> ELSE <<c[1] + 1, c[2]>>

\* count += e->dismiss_wait(w);
count_dismiss_wait(ok, c) == IF ok THEN c + 1 ELSE c

\* CountdownLatch::wait(std::uint32_t target): "Wait will not return untill
\* count is at least n", then it consumes target signals.  A negative
\* argument converts to 2^32 + target, above every count that is reached.
latch_ready(c, target) == IF target < 0 THEN FALSE ELSE c >= target
latch_consume(c, target) == c - target

\* what follows the return of wait_many:
\*   wait_all_adl: if (waited) latch.wait(waited);
\*   wait_any_adl: if (signaled == 0) latch.wait();   then dismiss_wait_many
blockAlways(sc, wc) == "block"
after_wait_many(sc, wc) ==
    IF mode = "wait_all" THEN (IF wc # 0 THEN "block" ELSE "done")
    ELSE (IF sc = 0 THEN "block" ELSE "dm_load")

\* std::ptrdiff_t pending = waited - dismissed;
\* if (signaled == 0) pending -= 1;
pendingKeepsWake(sc, wc, d) == wc - d
pending_of(sc, wc, d) == IF sc = 0 THEN (wc - d) - 1 ELSE wc - d

\* the range holds distinct events, some entries null; every event is
\* constructed Empty or Signaled; some producers will signal
ManyInit ==
    /\ OnlyMany
    /\ mode \in {"wait_all", "wait_any"}
    /\ range \in {r \in [1..NEvents -> 0..NEvents] : \A i \in 1..NEvents : r[i] \in {0, i}}
    /\ events \in [1..NEvents -> {empty, signaled}]
    /\ will \in SUBSET (1..NEvents)
    /\ prod = [e \in 1..NEvents |-> "idle"]
    /\ prodw = [e \in 1..NEvents |-> empty]
    /\ count \in 0..1
    /\ mpc = "reset" /\ it = 0 /\ loaded = empty
    /\ signaled_count = 0 /\ waited_count = 0 /\ dismissed = 0 /\ pending = 0
    /\ tw = <<>> /\ dw = <<>>

\* ---- the producer of event e: signal() ----------------------------------------
m_signal_exchange(e) ==
    /\ e \in will /\ prod[e] = "idle"
    /\ prodw' = [prodw EXCEPT ![e] = events[e]]
    /\ events' = [events EXCEPT ![e] = exchange(events[e])]
    /\ prod' = [prod EXCEPT ![e] = "invoke"]
    /\ UNCHANGED <<mode, range, will, count, mpc, it, loaded, signaled_count,
                   waited_count, dismissed, pending, tw, dw>>
    /\ UNCHANGED notMany

\* if (w) w->signal(event_ptr(this));  with CountdownLatch::signal:
\* "call p.release(); increase count by 1"
m_signal_invoke(e) ==
    /\ prod[e] = "invoke"
    /\ count' = IF dispatched(prodw[e]) /\ prodw[e] = latch THEN count + 1 ELSE count
    /\ prod' = [prod EXCEPT ![e] = "done"]
    /\ UNCHANGED <<mode, range, events, will, prodw, mpc, it, loaded,
                   signaled_count, waited_count, dismissed, pending, tw, dw>>
    /\ UNCHANGED notMany

\* ---- the consumer: wait_all_adl / wait_any_adl --------------------------------
\* latch.reset();  and the entry into the loop of wait_many
m_reset ==
    /\ mpc = "reset"
    /\ count' = 0
    /\ signaled_count' = 0 /\ waited_count' = 0
    /\ it' = NextEvent(1)
    /\ mpc' = IF NextEvent(1) > Len(range) THEN after_wait_many(0, 0) ELSE "wm_load"
    /\ UNCHANGED <<mode, range, events, will, prod, prodw, loaded, dismissed,
                   pending, tw, dw>>
    /\ UNCHANGED notMany

\* wait_many: e->try_wait(w), its get_waiter()
m_try_wait_load ==
    /\ mpc = "wm_load"
    /\ loaded' = events[get_event(range[it])]
    /\ mpc' = "wm_cas"
    /\ UNCHANGED <<mode, range, events, will, prod, prodw, count, it,
                   signaled_count, waited_count, dismissed, pending, tw, dw>>
    /\ UNCHANGED notMany

\* wait_many: the CAS of e->try_wait(w), the count, ++i and, at the end of the
\* range, the return of wait_many into wait_all_adl / wait_any_adl
m_try_wait_cas ==
    /\ mpc = "wm_cas"
    /\ LET e == get_event(range[it])
           r == try_wait(events[e], loaded, latch)
           c == count_try_wait(r.ok, <<signaled_count, waited_count>>)
           n == NextEvent(it + 1)
           pc == IF n > Len(range) THEN after_wait_many(c[1], c[2]) ELSE "wm_load" IN
        /\ events' = [events EXCEPT ![e] = r.new]
        /\ signaled_count' = c[1] /\ waited_count' = c[2]
        /\ tw' = Append(tw, [i |-> it, ret |-> r.ok])
        /\ mpc' = pc
        /\ it' = IF pc = "dm_load" THEN NextEvent(1) ELSE n
    /\ UNCHANGED <<mode, range, will, prod, prodw, count, loaded, dismissed,
                   pending, dw>>
    /\ UNCHANGED notMany

\* latch.wait() of wait_any_adl (line 362), latch.wait(waited) of wait_all_adl
m_block ==
    /\ mpc = "block"
    /\ LET target == IF mode = "wait_all" THEN waited_count ELSE 1 IN
        /\ latch_ready(count, target)
        /\ count' = latch_consume(count, target)
    /\ mpc' = IF mode = "wait_all" THEN "done" ELSE "dm_load"
    /\ it' = IF mode = "wait_all" THEN it ELSE NextEvent(1)
    /\ UNCHANGED <<mode, range, events, will, prod, prodw, loaded, signaled_count,
                   waited_count, dismissed, pending, tw, dw>>
    /\ UNCHANGED notMany

\* dismiss_wait_many: e->dismiss_wait(w), its get_waiter()
m_dismiss_wait_load ==
    /\ mpc = "dm_load" /\ it <= Len(range)
    /\ loaded' = events[get_event(range[it])]
    /\ mpc' = "dm_cas"
    /\ UNCHANGED <<mode, range, events, will, prod, prodw, count, it,
                   signaled_count, waited_count, dismissed, pending, tw, dw>>
    /\ UNCHANGED notMany

\* dismiss_wait_many: the CAS of e->dismiss_wait(w), the count, ++i and, at the
\* end of the range, lines 366-374 of wait_any_adl
m_dismiss_wait_cas ==
    /\ mpc = "dm_cas"
    /\ LET e == get_event(range[it])
           r == dismiss_wait(events[e], loaded)
           d == count_dismiss_wait(r.ok, dismissed)
           n == NextEvent(it + 1)
           p == pending_of(signaled_count, waited_count, d) IN
        /\ events' = [events EXCEPT ![e] = r.new]
        /\ dismissed' = d
        /\ dw' = Append(dw, [i |-> it, ret |-> r.ok])
        /\ it' = n
        /\ IF n > Len(range)
           THEN /\ pending' = p
                /\ mpc' = IF p # 0 THEN "drain" ELSE "done"
           ELSE /\ pending' = pending
                /\ mpc' = "dm_load"
    /\ UNCHANGED <<mode, range, will, prod, prodw, count, loaded, signaled_count,
                   waited_count, tw>>
    /\ UNCHANGED notMany

\* if (pending) latch.wait(pending);
m_drain ==
    /\ mpc = "drain"
    /\ latch_ready(count, pending)
    /\ count' = latch_consume(count, pending)
    /\ mpc' = "done"
    /\ UNCHANGED <<mode, range, events, will, prod, prodw, it, loaded,
                   signaled_count, waited_count, dismissed, pending, tw, dw>>
    /\ UNCHANGED notMany

ManyNext ==
    \/ \E e \in 1..NEvents : m_signal_exchange(e)
    \/ \E e \in 1..NEvents : m_signal_invoke(e)
    \/ m_reset
    \/ m_try_wait_load
    \/ m_try_wait_cas
    \/ m_block
    \/ m_dismiss_wait_load
    \/ m_dismiss_wait_cas
    \/ m_drain

SpecMany == ManyInit /\ [][ManyNext]_vars

\* every thread that can take a step eventually takes one
FairSpecMany ==
    /\ SpecMany
    /\ \A e \in 1..NEvents : WF_vars(m_signal_exchange(e)) /\ WF_vars(m_signal_invoke(e))
    /\ WF_vars(m_reset) /\ WF_vars(m_try_wait_load) /\ WF_vars(m_try_wait_cas)
    /\ WF_vars(m_block) /\ WF_vars(m_dismiss_wait_load)
    /\ WF_vars(m_dismiss_wait_cas) /\ WF_vars(m_drain)

\* ---- vocabulary of the composite-wait properties ------------------------------
NonNull == {i \in DOMAIN range : get_event(range[i]) # 0}
WaitManyReturned == mpc \in {"block", "dm_load", "dm_cas", "drain", "done"}
DismissManyReturned == mode = "wait_any" /\ mpc \in {"drain", "done"}
TryWaits(i) == {k \in DOMAIN tw : tw[k].i = i}
Dismissals(i) == {k \in DOMAIN dw : dw[k].i = i}
AnyDone == mode = "wait_any" /\ mpc = "done"
AllDone == mode = "wait_all" /\ mpc = "done"

\* ---- C11 --------------------------------------------------------------------
\* C11: wait_many calls try_wait once on every non-null event of the range and
\* on nothing else; it returns waited = the number of calls that returned true
\* and signaled = the number that returned false, so that signaled + waited is
\* the number of non-null entries, whatever the producers do meanwhile;
\* dismiss_wait_many calls dismiss_wait once per non-null event and returns the
\* number of calls that returned true.
C11_WaitManyCounts ==
    /\ \A i \in DOMAIN range :
         /\ Cardinality(TryWaits(i)) <= (IF i \in NonNull THEN 1 ELSE 0)
         /\ Cardinality(Dismissals(i)) <= (IF i \in NonNull THEN 1 ELSE 0)
    /\ WaitManyReturned =>
         /\ \A i \in NonNull : Cardinality(TryWaits(i)) = 1
         /\ waited_count = Cardinality({k \in DOMAIN tw : tw[k].ret})
         /\ signaled_count = Cardinality({k \in DOMAIN tw : ~tw[k].ret})
         /\ signaled_count + waited_count = Cardinality(NonNull)
    /\ DismissManyReturned =>
         /\ \A i \in NonNull : Cardinality(Dismissals(i)) = 1
         /\ dismissed = Cardinality({k \in DOMAIN dw : dw[k].ret})

\* both batches have returned; one try_wait registered the latch, another
\* returned false on an event its producer signaled from Empty, and one
\* dismissal succeeded
C11_Witness ==
    /\ DismissManyReturned /\ signaled_count = 1 /\ waited_count = 1 /\ dismissed = 1
    /\ \E k \in DOMAIN tw :
         /\ ~tw[k].ret
         /\ prod[range[tw[k].i]] # "idle" /\ prodw[range[tw[k].i]] = empty

\* ---- C12 --------------------------------------------------------------------
\* C12: once wait_any has returned no event of the range holds the latch as
\* its waiter, no signal() is about to call the latch, and the latch count is
\* 0: every callback made to the latch was consumed, and none comes later.
C12_WaitAnyClean ==
    AnyDone =>
        /\ \A i \in NonNull : events[range[i]] # latch
        /\ \A e \in 1..NEvents : ~(prod[e] = "invoke" /\ prodw[e] = latch)
        /\ count = 0

\* wait_any blocked, was woken, found that the other producer had signaled as
\* well, drained its callback and returned
C12_Witness ==
    /\ AnyDone /\ signaled_count = 0 /\ waited_count = 2 /\ dismissed = 0
    /\ pending = 1

\* ---- C13 --------------------------------------------------------------------
SomeSignal ==
    /\ mode = "wait_any"
    /\ \E i \in NonNull : events[range[i]] = signaled \/ range[i] \in will

\* C13: wait_any returns when some non-null event of the range is Signaled or
\* is going to be signaled by its producer.
C13_WaitAnyReturns == SomeSignal ~> AnyDone

\* wait_any blocked in step 2, was woken by one event and dismissed the other
C13_Witness ==
    /\ AnyDone /\ signaled_count = 0 /\ waited_count = 2 /\ dismissed = 1

\* ---- C14 --------------------------------------------------------------------
EverySignal ==
    /\ mode = "wait_all"
    /\ \A i \in NonNull : events[range[i]] = signaled \/ range[i] \in will

C14Step ==
    (mode = "wait_all" /\ mpc = "block" /\ mpc' # mpc) =>
        count >= waited_count /\ count' = count - waited_count /\ mpc' = "done"

\* C14: wait_all returns only when every non-null event of the range is
\* Signaled, after consuming exactly waited latch signals counted from the
\* reset; it returns once all of them are signaled; with waited = 0 it never
\* blocks on the latch.
C14_WaitAll ==
    /\ [](AllDone => \A i \in NonNull : events[range[i]] = signaled)
    /\ [](mode = "wait_all" /\ mpc = "block" => waited_count > 0)
    /\ [][C14Step]_vars
    /\ EverySignal ~> AllDone

\* wait_all registered the latch on two events and returned after both signals
C14_Witness ==
    /\ AllDone /\ waited_count = 2 /\ count = 0
    /\ \A e \in 1..NEvents : prod[e] = "done" /\ prodw[e] = latch

\* ---- C23 --------------------------------------------------------------------
\* C23: the assertions of wait_any_adl hold where they stand: after wait_many,
\* signaled + waited is at most the size of the range; after
\* dismiss_wait_many, dismissed <= waited, waited - dismissed >= 0, and when
\* signaled is 0 (the caller went through latch.wait()) waited - dismissed is
\* at least 1, so that pending is never negative.
C23_AssertsHold ==
    /\ (mode = "wait_any" /\ WaitManyReturned) =>
          signaled_count + waited_count <= Len(range)
    /\ DismissManyReturned =>
          /\ dismissed <= waited_count
          /\ waited_count - dismissed >= 0
          /\ signaled_count # 0 \/ waited_count - dismissed >= 1
          /\ pending >= 0
          /\ pending = (waited_count - dismissed)
                        - (IF signaled_count = 0 THEN 1 ELSE 0)

\* wait_any found no event Signaled, registered on two, was woken, dismissed
\* none of the two (both had been signaled by then) and has returned
C23_Witness ==
    /\ AnyDone
    /\ signaled_count = 0 /\ waited_count = 2 /\ dismissed = 0 /\ pending = 1

\* ---- C24 --------------------------------------------------------------------
\* no producer signals and an event of the range is Signaled from the start
PreSignaledQuiet ==
    /\ mode = "wait_any" /\ will = {}
    /\ \E i \in NonNull : events[get_event(range[i])] = signaled

C24Step ==
    (mode = "wait_any" /\ ~WaitManyReturned /\ WaitManyReturned') =>
        ((mpc' = "block") <=> (signaled_count' = 0))

\* C24: wait_any_adl goes into latch.wait() after wait_many exactly when
\* wait_many counted no Signaled event.  With an event Signaled from the start
\* and no producer signaling, it never waits on the latch (neither at line
\* 362 nor at line 375), it returns, and then every event it registered on
\* is Empty again and was dismissed.
C24_BlocksIffNoneSignaled ==
    /\ [][C24Step]_vars
    /\ [](PreSignaledQuiet => mpc \notin {"block", "drain"})
    /\ []((PreSignaledQuiet /\ AnyDone) =>
            /\ dismissed = waited_count /\ pending = 0
            /\ \A k \in DOMAIN tw :
                 tw[k].ret => events[get_event(range[tw[k].i])] = empty
            /\ \A i \in NonNull : events[get_event(range[i])] # latch)
    /\ (PreSignaledQuiet ~> AnyDone)

\* one event was Signaled before the call, the other Empty: wait_any
\* registered on the Empty one, dismissed it and has returned
C24_Witness ==
    /\ PreSignaledQuiet /\ AnyDone
    /\ signaled_count = 1 /\ waited_count = 1 /\ dismissed = 1
    /\ \E i \in NonNull : events[get_event(range[i])] = empty

\* ==== the Dekker-like and mixed-atomics events (src/event.hpp 155-284) =========
MaxVariantOps == 3     \* number of try_wait/dismiss_wait calls on the variant event

\* enum class state_t { empty, critical, signaled, fired };
state_t == {"empty", "critical", "signaled", "fired"}

\* event(bool shared = true): pair.waited = 0, pair.signaled = empty or signaled;
\* was_waited has no initializer: its first read yields either value.
\* ref is a wait-free event constructed with the same argument.
VariantInit ==
    /\ OnlyVariant
    /\ impl \in {"DEKKER_LIKE", "MIXED_ATOMICS"}
    /\ \E shared \in BOOLEAN :
        /\ pair_signaled = IF shared THEN "empty" ELSE "signaled"
        /\ ref = IF shared THEN empty ELSE signaled
    /\ pair_waited = empty
    /\ was_waited \in BOOLEAN
    /\ vppc = "idle" /\ old_waited = empty /\ old_signaled = "empty"
    /\ vcpc = "idle" /\ vcw = empty /\ vops = 0
    /\ poverlap = FALSE /\ coverlap = FALSE
    /\ vsig = [done |-> FALSE, fired |-> empty, want |-> empty, overlapped |-> FALSE]
    /\ vret = [op |-> "none", ret |-> FALSE, want |-> FALSE, overlapped |-> FALSE]

\* a step of one thread while the other is inside a call makes both calls
\* overlapping ones
InSignal == vppc \notin {"idle", "done"}
InConsumerCall == vcpc # "idle"
ProducerMoves == coverlap' = (coverlap \/ InConsumerCall)
ConsumerMoves == poverlap' = (poverlap \/ InSignal)

\* ---- signal(), Dekker-like ---------------------------------------------------
\* pair.signaled.store(state_t::critical); fence      (signal is called once)
dk_signal_critical ==
    /\ impl = "DEKKER_LIKE" /\ vppc = "idle"
    /\ pair_signaled' = "critical"
    /\ vppc' = "load_waited"
    /\ poverlap' = InConsumerCall /\ ProducerMoves
    /\ UNCHANGED <<impl, pair_waited, was_waited, old_waited, old_signaled,
                   vcpc, vcw, vops, ref, vsig, vret>>
    /\ UNCHANGED notVariant

\* auto w = pair.waited.load();
dk_signal_load ==
    /\ impl = "DEKKER_LIKE" /\ vppc = "load_waited"
    /\ old_waited' = pair_waited
    /\ vppc' = "store"
    /\ ProducerMoves
    /\ UNCHANGED <<impl, pair_signaled, pair_waited, was_waited, old_signaled,
                   vcpc, vcw, vops, ref, poverlap, vsig, vret>>
    /\ UNCHANGED notVariant

\* if (!w) pair.signaled.store(signaled); else { pair.signaled.store(fired); ...
dk_signal_store ==
    /\ impl = "DEKKER_LIKE" /\ vppc = "store"
    /\ pair_signaled' = IF old_waited = empty THEN "signaled" ELSE "fired"
    /\ vppc' = "invoke"
    /\ ProducerMoves
    /\ UNCHANGED <<impl, pair_waited, was_waited, old_waited, old_signaled,
                   vcpc, vcw, vops, ref, poverlap, vsig, vret>>
    /\ UNCHANGED notVariant

\* ---- signal(), mixed atomics -------------------------------------------------
\* auto w = pair.waited.load(); atomic_pair_t old { w, state_t::empty };
mx_signal_load ==
    /\ impl = "MIXED_ATOMICS" /\ vppc = "idle"
    /\ old_waited' = pair_waited /\ old_signaled' = "empty"
    /\ vppc' = "dcas"
    /\ poverlap' = InConsumerCall /\ ProducerMoves
    /\ UNCHANGED <<impl, pair_signaled, pair_waited, was_waited,
                   vcpc, vcw, vops, ref, vsig, vret>>
    /\ UNCHANGED notVariant

\* while (!atomic_pair.compare_exchange_strong(old, {old.waited,
\*            old.waited ? fired : signaled})) ;
\* a failed compare-exchange loads the pair into old and the loop goes round
mx_signal_dcas ==
    /\ impl = "MIXED_ATOMICS" /\ vppc = "dcas"
    /\ IF <<pair_waited, pair_signaled>> = <<old_waited, old_signaled>>
       THEN /\ pair_signaled' = IF old_waited = empty THEN "signaled" ELSE "fired"
            /\ vppc' = "invoke"
            /\ UNCHANGED <<old_waited, old_signaled>>
       ELSE /\ old_waited' = pair_waited /\ old_signaled' = pair_signaled
            /\ UNCHANGED <<pair_signaled, vppc>>
    /\ ProducerMoves
    /\ UNCHANGED <<impl, pair_waited, was_waited,
                   vcpc, vcw, vops, ref, poverlap, vsig, vret>>
    /\ UNCHANGED notVariant

\* ---- signal(), both: the callback and the return ----------------------------
\* w->signal(event_ptr(this));   /   if (old.waited) old.waited->signal(...)
\* The wait-free event fed with the same calls does state.exchange(signaled)
\* and dispatches the waiter it finds.
v_signal_invoke ==
    /\ vppc = "invoke"
    /\ vsig' = [done |-> TRUE, fired |-> old_waited,
                want |-> IF ref \in Waiters THEN ref ELSE empty,
                overlapped |-> poverlap]
    /\ ref' = exchange(ref)
    /\ vppc' = "done"
    /\ ProducerMoves
    /\ UNCHANGED <<impl, pair_signaled, pair_waited, was_waited, old_waited,
                   old_signaled, vcpc, vcw, vops, poverlap, vret>>
    /\ UNCHANGED notVariant

\* ---- load_state() ------------------------------------------------------------
\* Dekker-like: while (s == state_t::critical) reload: the caller gets past
\* load_state only with a value other than critical.  Mixed atomics never
\* stores critical.
load_state_returns == pair_signaled # "critical"

\* ---- try_wait(w) --------------------------------------------------------------
\* Pre as for the wait-free event: the consumer holds no registration.
\* bool waited = false; if (load_state() == state_t::empty) { ...
v_try_wait_load(w) ==
    /\ vcpc = "idle" /\ vops < MaxVariantOps
    /\ ref \notin Waiters
    /\ load_state_returns
    /\ vcw' = w /\ vops' = vops + 1
    /\ vcpc' = IF pair_signaled = "empty" THEN "try_wait_store" ELSE "try_wait_return"
    /\ coverlap' = InSignal /\ ConsumerMoves
    /\ UNCHANGED <<impl, pair_signaled, pair_waited, was_waited, vppc,
                   old_waited, old_signaled, ref, vsig, vret>>
    /\ UNCHANGED notVariant

\* pair.waited.store(w); fence
v_try_wait_store ==
    /\ vcpc = "try_wait_store"
    /\ pair_waited' = vcw
    /\ vcpc' = "try_wait_reload"
    /\ ConsumerMoves
    /\ UNCHANGED <<impl, pair_signaled, was_waited, vppc, old_waited,
                   old_signaled, vcw, vops, ref, coverlap, vsig, vret>>
    /\ UNCHANGED notVariant

\* the value try_wait returns and what the wait-free event does for the call
try_wait_returns(waited) ==
    /\ was_waited' = waited
    /\ vret' = [op |-> "try_wait", ret |-> waited,
                want |-> try_wait(ref, ref, vcw).ok, overlapped |-> coverlap]
    /\ ref' = try_wait(ref, ref, vcw).new
    /\ vcpc' = "idle"
    /\ ConsumerMoves
    /\ UNCHANGED <<impl, pair_signaled, pair_waited, vppc, old_waited,
                   old_signaled, vcw, vops, coverlap, vsig>>
    /\ UNCHANGED notVariant

\* waited = load_state() != state_t::signaled; } was_waited = waited; return waited;
v_try_wait_reload ==
    /\ vcpc = "try_wait_reload"
    /\ load_state_returns
    /\ try_wait_returns(pair_signaled # "signaled")

\* (the state was not empty)  was_waited = waited; return waited;
v_try_wait_return ==
    /\ vcpc = "try_wait_return"
    /\ try_wait_returns(FALSE)

\* ---- dismiss_wait(w) ----------------------------------------------------------
\* pair.waited.store(0); fence
v_dismiss_wait_store(w) ==
    /\ vcpc = "idle" /\ vops < MaxVariantOps
    /\ pair_waited' = empty
    /\ vcw' = w /\ vops' = vops + 1
    /\ vcpc' = "dismiss_wait_load"
    /\ coverlap' = InSignal /\ ConsumerMoves
    /\ UNCHANGED <<impl, pair_signaled, was_waited, vppc, old_waited,
                   old_signaled, ref, vsig, vret>>
    /\ UNCHANGED notVariant

\* return was_waited && load_state() != state_t::fired;
\* (load_state is not called when was_waited is false)
v_dismiss_wait(ww, s) == ww /\ s # "fired"

v_dismiss_wait_load ==
    /\ vcpc = "dismiss_wait_load"
    /\ was_waited => load_state_returns
    /\ vret' = [op |-> "dismiss_wait", ret |-> v_dismiss_wait(was_waited, pair_signaled),
                want |-> dismiss_wait(ref, ref).ok, overlapped |-> coverlap]
    /\ ref' = dismiss_wait(ref, ref).new
    /\ vcpc' = "idle"
    /\ ConsumerMoves
    /\ UNCHANGED <<impl, pair_signaled, pair_waited, was_waited, vppc,
                   old_waited, old_signaled, vcw, vops, coverlap, vsig>>
    /\ UNCHANGED notVariant

VariantNext ==
    \/ dk_signal_critical
    \/ dk_signal_load
    \/ dk_signal_store
    \/ mx_signal_load
    \/ mx_signal_dcas
    \/ v_signal_invoke
    \/ \E w \in Waiters : v_try_wait_load(w)
    \/ v_try_wait_store
    \/ v_try_wait_reload
    \/ v_try_wait_return
    \/ \E w \in Waiters : v_dismiss_wait_store(w)
    \/ v_dismiss_wait_load

SpecVariant == VariantInit /\ [][VariantNext]_vars

\* C16: the Dekker-like and the mixed-atomics event return what the wait-free
\* event returns, and call the waiter the wait-free event calls, for the same
\* sequence of legal calls: every try_wait / dismiss_wait that did not overlap
\* signal() returns the value the wait-free operation returns on the wait-free
\* event that received the same calls, and a signal() that overlapped no
\* consumer call invokes the waiter the wait-free exchange would dispatch.
C16_VariantsEquivalent ==
    /\ (vret.op # "none" /\ ~vret.overlapped) => vret.ret = vret.want
    /\ (vsig.done /\ ~vsig.overlapped) => vsig.fired = vsig.want

\* ==== shared_state_multiplexer (src/shared_future.hpp) ==========================
\* the multiplexer as the waiter of the source future's shared state
multiplexer == "shared_state_multiplexer"

\* std::exchange(obj, new_value): obj gets new_value, the old value is returned
exchangeCopies(obj, new_value) == [old |-> obj, obj |-> obj]
std_exchange(obj, new_value) == [old |-> obj, obj |-> new_value]

\* the promises of a deque
Promises(q) == {q[i] : i \in DOMAIN q}

\* shared_state_multiplexer(future<T>&& future) has not been entered yet; the
\* source future is ready (its shared state, an event, is Signaled) or not
MuxInit ==
    /\ OnlyMux
    /\ src_state \in {empty, signaled}
    /\ listeners = <<>> /\ tmp_listeners = <<>> /\ taken = <<>>
    /\ set_values = [p \in 1..MaxListeners |-> 0]
    /\ stored = FALSE
    /\ spc = "ctor" /\ si = 0 /\ made = 0 /\ constructed = FALSE
    /\ late = {} /\ mux = "free" /\ apc = "idle"

\* future.get_shared_state()->wait(this);
\* event::wait: if (!try_wait(w)) w->signal(event_ptr(this));  the multiplexer's
\* signal runs inside the constructor when the source is ready
mux_ctor ==
    /\ spc = "ctor"
    /\ LET r == try_wait(src_state, src_state, multiplexer) IN
        /\ src_state' = r.new
        /\ spc' = IF r.ok THEN "registered" ELSE "store"
        /\ constructed' = r.ok
    /\ UNCHANGED <<listeners, tmp_listeners, taken, set_values, stored, si, made, late, mux, apc>>
    /\ UNCHANGED notMux

\* the producer fulfils the source: event::signal exchanges the state and
\* dispatches the registered waiter, the multiplexer
src_signal ==
    /\ spc = "registered"
    /\ src_state' = exchange(src_state)
    /\ spc' = IF dispatched(src_state) THEN "store" ELSE spc
    /\ UNCHANGED <<listeners, tmp_listeners, taken, set_values, stored, si, made,
                   constructed, late, mux, apc>>
    /\ UNCHANGED notMux

\* signal(event_ptr other): *static_cast<shared_state_union<T>*>(this) =
\*     std::move(*original); original.reset();
mux_signal_store ==
    /\ spc = "store"
    /\ stored' = TRUE
    /\ spc' = "take"
    /\ UNCHANGED <<src_state, listeners, tmp_listeners, taken, set_values, si, made,
                   constructed, late, mux, apc>>
    /\ UNCHANGED notMux

\* auto tmp_listeners = (lock(), ...   : the unique_lock is taken
mux_signal_lock ==
    /\ spc = "take" /\ mux = "free"
    /\ mux' = "signal"
    /\ spc' = "exchange"
    /\ UNCHANGED <<src_state, listeners, tmp_listeners, taken, set_values, stored,
                   si, made, constructed, late, apc>>
    /\ UNCHANGED notMux

\* ... std::exchange(listeners, {}));   the temporary lock dies with the
\* full expression
mux_signal_take ==
    /\ spc = "exchange"
    /\ LET x == std_exchange(listeners, <<>>) IN
        /\ tmp_listeners' = x.old
        /\ listeners' = x.obj
        /\ taken' = x.old
    /\ mux' = "free"
    /\ si' = 1
    /\ spc' = "fulfil"
    /\ UNCHANGED <<src_state, set_values, stored, made, constructed, late, apc>>
    /\ UNCHANGED notMux

\* for (auto&& p : tmp_listeners) p.set_value(true);
mux_signal_set_value ==
    /\ spc = "fulfil" /\ si <= Len(tmp_listeners)
    /\ set_values' = [set_values EXCEPT ![tmp_listeners[si]] = @ + 1]
    /\ si' = si + 1
    /\ UNCHANGED <<src_state, listeners, tmp_listeners, taken, stored, spc, made,
                   constructed, late, mux, apc>>
    /\ UNCHANGED notMux

\* end of the loop: signal returns (and with it the constructor, when signal
\* was called from it)
mux_signal_return ==
    /\ spc = "fulfil" /\ si > Len(tmp_listeners)
    /\ spc' = "done"
    /\ constructed' = TRUE
    /\ UNCHANGED <<src_state, listeners, tmp_listeners, taken, set_values, stored,
                   si, made, late, mux, apc>>
    /\ UNCHANGED notMux

\* future<bool> add_listener() {
\*     return lock(), listeners.emplace_back(), listeners.back().get_future(); }
\* called by shared_future(future<T>&&) after the multiplexer is constructed
\* and by every copy of a shared_future.   lock():
add_listener_lock ==
    /\ constructed /\ made < MaxListeners
    /\ apc = "idle" /\ mux = "free"
    /\ mux' = "add_listener"
    /\ apc' = "emplace_back"
    /\ UNCHANGED <<src_state, listeners, tmp_listeners, taken, set_values, stored,
                   spc, si, made, constructed, late>>
    /\ UNCHANGED notMux

\* listeners.emplace_back(), listeners.back().get_future(); the lock is
\* released when the return statement is done
add_listener ==
    /\ apc = "emplace_back"
    /\ made' = made + 1
    /\ listeners' = Append(listeners, made + 1)
    /\ late' = IF spc = "done" THEN late \cup {made + 1} ELSE late
    /\ mux' = "free"
    /\ apc' = "idle"
    /\ UNCHANGED <<src_state, tmp_listeners, taken, set_values, stored, spc, si,
                   constructed>>
    /\ UNCHANGED notMux

MuxNext ==
    \/ mux_ctor
    \/ src_signal
    \/ mux_signal_store
    \/ mux_signal_lock
    \/ mux_signal_take
    \/ mux_signal_set_value
    \/ mux_signal_return
    \/ add_listener_lock
    \/ add_listener

SpecMux == MuxInit /\ [][MuxNext]_vars

\* ---- C17 ---------------------------------------------------------------------
SignalTakes == spc = "exchange" /\ spc' = "fulfil"

C17Step ==
    SignalTakes => /\ listeners' = <<>>
                   /\ tmp_listeners' = listeners
                   /\ stored

C18_EveryListenerReady ==
    spc = "done" => \A p \in 1..made : set_values[p] >= 1

\* ==== continuations: create_context and the trampolines (src/switch.hpp) =======
\* the stacks F can exit to, the exceptions it can throw, the values passed
Destinations == {"creator", "other"}
Exceptions == {"e1", "e2"}
Yielded == 1..3
Resumed == {4, 5}
\* the continuation variables of the code that holds the coroutine
Holders == {"c", "c2"}

\* execute_into(arg, target_sp, trampoline) / stack_switch(target_sp, arg):
\* execution continues on the target stack (in the trampoline, or at the saved
\* return point)
execute_into(target_sp) == target_sp
stack_switch(target_sp) == target_sp

\* a guard runs its function when its scope is left, by return or by unwinding
guard_runs(armed) == armed

\* switch_pair pilfer() { switch_pair result = pair; pair = {{0},0};
\*                        return result; }
pilferKeeps(pair) == [result |-> pair, pair |-> pair]
pilfer(pair) == [result |-> pair, pair |-> nullpair]

\* bool has_data() const { return pair.parm; }
has_data(pair) == pair.parm # null

\* bool terminated() const { return !pair.sp; }
is_terminated(pair) == pair.sp = null

\* result_type operator*() const: get(details::tag<result_type>(), pair.parm)
\* moves the value out of the tuple the transfer parameter points to
starCreatorsTuple(pair, mem) == mem["creator"]
operator_star(pair, mem) == mem[pair.parm]

\* template<...> continuation<Signature> create_context(F&& f, ...) has not
\* been called yet
ContInit ==
    /\ OnlyCont
    /\ kpc = "create_context" /\ on = "creator"
    /\ allocated = 0 /\ deallocated = 0 /\ freed_on = null
    /\ sp = null /\ excp = null /\ cleanup_args_on = null
    /\ exit_kind = "none" /\ thrown = null /\ exit_to = null
    /\ inflight = null /\ surfaced = null
    /\ g = FALSE /\ yields = 0 /\ terminated = FALSE
    /\ pairs = [o \in Objects |-> nullpair] /\ cpair = nullpair
    /\ tuples = [s \in Stacks |-> 0] /\ robj = "c"
    /\ sent = <<>> /\ observed = <<>> /\ arg = 0 /\ got = 0
    /\ wec = null /\ ptr = null /\ sx = FALSE /\ asserts = {}

\* void * stackp = alloc.allocate(stack_size); auto deleter = [=] {
\* alloc.deallocate(stackp); }; run_startup_trampoline_into(cs, f, deleter):
\* execute_into(&args, cs, &startup_trampoline<...>); the pair that comes back
\* makes the continuation<Signature> that create_context returns
create_context ==
    /\ kpc = "create_context"
    /\ allocated' = allocated + 1
    /\ on' = execute_into("coroutine")
    /\ robj' = "c"
    /\ kpc' = "startup_trampoline"
    /\ UNCHANGED <<deallocated, freed_on, sp, excp, cleanup_args_on, exit_kind,
                   thrown, exit_to, inflight, surfaced, g, yields, terminated>>
    /\ UNCHANGED <<pairs, cpair, tuples, sent, observed, arg, got, wec, ptr, sx,
                   asserts>>
    /\ UNCHANGED notCont

\* auto cleanup_args = std::move(argsp->cleanup_args);  (a local of the
\* trampoline: it lives on the coroutine's stack)
\* try { F f(...); switch_pair pair = {sp,0}; sp = f(Continuation(pair))...
\* F also holds a continuation of the other stack it may exit to
startup_trampoline ==
    /\ kpc = "startup_trampoline"
    /\ cleanup_args_on' = on
    /\ sp' = "creator"
    /\ pairs' = [pairs EXCEPT !["fc"] = [sp |-> "creator", parm |-> null],
                              !["fo"] = [sp |-> "other", parm |-> null]]
    /\ kpc' = "F"
    /\ UNCHANGED <<on, allocated, deallocated, freed_on, excp, exit_kind, thrown,
                   exit_to, inflight, surfaced, g, yields, terminated>>
    /\ UNCHANGED <<cpair, tuples, robj, sent, observed, arg, got, wec, ptr, sx,
                   asserts>>
    /\ UNCHANGED notCont

\* ---- the functor F ------------------------------------------------------------
\* F reads the value it was resumed with: *c
F_take ==
    /\ kpc = "F" /\ has_data(pairs["fc"]) /\ got = 0
    /\ got' = operator_star(pairs["fc"], tuples)
    /\ UNCHANGED kvars
    /\ UNCHANGED <<pairs, cpair, tuples, robj, sent, observed, arg, wec, ptr, sx,
                   asserts>>
    /\ UNCHANGED notCont

\* F runs the rest of its body inside with_escape_continuation(f, c), c being
\* its continuation to dest:   try { f(); } catch(...) { ... }
with_escape_continuation(dest) ==
    /\ kpc = "F" /\ wec = null
    /\ wec' = dest
    /\ UNCHANGED kvars
    /\ UNCHANGED <<pairs, cpair, tuples, robj, sent, observed, arg, got, ptr, sx,
                   asserts>>
    /\ UNCHANGED notCont

\* F calls the continuation it holds, continuation::operator():
\* assert(!terminated()); switch_pair cpair = pilfer();
F_pilfer ==
    /\ kpc = "F" /\ yields < MaxYields
    /\ ~is_terminated(pairs["fc"])
    /\ LET r == pilfer(pairs["fc"])
       IN  /\ cpair' = r.result
           /\ pairs' = [pairs EXCEPT !["fc"] = r.pair]
    /\ kpc' = "F_switch"
    /\ UNCHANGED <<on, allocated, deallocated, freed_on, sp, excp, cleanup_args_on,
                   exit_kind, thrown, exit_to, inflight, surfaced, g, yields,
                   terminated>>
    /\ UNCHANGED <<tuples, robj, sent, observed, arg, got, wec, ptr, sx, asserts>>
    /\ UNCHANGED notCont

\* std::tuple<Args...> p(args...); pair = stack_switch(cpair.sp, &p);
\* the pending operation of the holder returns the pair {F's stack, &p} into
\* its continuation, and the tuple of the holder's own operator() is gone
F_yield(y) ==
    /\ kpc = "F_switch"
    /\ tuples' = [tuples EXCEPT ![on] = y, ![cpair.sp] = 0]
    /\ on' = stack_switch(cpair.sp)
    /\ pairs' = [pairs EXCEPT ![robj] = [sp |-> on, parm |-> on]]
    /\ cpair' = nullpair
    /\ sent' = Append(sent, y)
    /\ yields' = yields + 1
    /\ kpc' = "yielded"
    /\ UNCHANGED <<allocated, deallocated, freed_on, sp, excp, cleanup_args_on,
                   exit_kind, thrown, exit_to, inflight, surfaced, g, terminated>>
    /\ UNCHANGED <<robj, observed, arg, got, wec, ptr, sx, asserts>>
    /\ UNCHANGED notCont

\* ---- the holder of the coroutine ------------------------------------------------
\* result_type operator*() const { assert(has_data()); return get(...); }
\* taken once for each value that arrived
take_result(o) ==
    /\ kpc = "yielded" /\ o \in Holders
    /\ has_data(pairs[o])
    /\ \A k \in DOMAIN observed : observed[k].i # Len(sent)
    /\ observed' = Append(observed, [i |-> Len(sent),
                                     v |-> operator_star(pairs[o], tuples)])
    /\ UNCHANGED kvars
    /\ UNCHANGED <<pairs, cpair, tuples, robj, sent, arg, got, wec, ptr, sx,
                   asserts>>
    /\ UNCHANGED notCont

\* continuation(continuation&& rhs) : pair(rhs.pilfer()) {}
\* continuation& operator=(continuation rhs) { assert(terminated());
\*                                             pair = rhs.pilfer(); ... }
\* first half: rhs.pilfer()
rhs_pilfer(o, d) ==
    /\ kpc = "yielded" /\ o \in Holders /\ d \in Holders /\ o # d
    /\ ~is_terminated(pairs[o]) /\ is_terminated(pairs[d])
    /\ LET r == pilfer(pairs[o])
       IN  /\ cpair' = r.result
           /\ pairs' = [pairs EXCEPT ![o] = r.pair]
    /\ robj' = d
    /\ kpc' = "move"
    /\ UNCHANGED <<on, allocated, deallocated, freed_on, sp, excp, cleanup_args_on,
                   exit_kind, thrown, exit_to, inflight, surfaced, g, yields,
                   terminated>>
    /\ UNCHANGED <<tuples, sent, observed, arg, got, wec, ptr, sx, asserts>>
    /\ UNCHANGED notCont

\* second half: pair(...) / pair = ...
continuation_move ==
    /\ kpc = "move"
    /\ pairs' = [pairs EXCEPT ![robj] = cpair]
    /\ cpair' = nullpair
    /\ kpc' = "yielded"
    /\ UNCHANGED <<on, allocated, deallocated, freed_on, sp, excp, cleanup_args_on,
                   exit_kind, thrown, exit_to, inflight, surfaced, g, yields,
                   terminated>>
    /\ UNCHANGED <<tuples, robj, sent, observed, arg, got, wec, ptr, sx, asserts>>
    /\ UNCHANGED notCont

\* the holder resumes the coroutine, continuation::operator():
\* assert(!terminated()); switch_pair cpair = pilfer();
resume_pilfer(o) ==
    /\ kpc = "yielded" /\ o \in Holders
    /\ ~is_terminated(pairs[o])
    /\ LET r == pilfer(pairs[o])
       IN  /\ cpair' = r.result
           /\ pairs' = [pairs EXCEPT ![o] = r.pair]
    /\ robj' = o
    /\ kpc' = "resume_switch"
    /\ UNCHANGED <<on, allocated, deallocated, freed_on, sp, excp, cleanup_args_on,
                   exit_kind, thrown, exit_to, inflight, surfaced, g, yields,
                   terminated>>
    /\ UNCHANGED <<tuples, sent, observed, arg, got, wec, ptr, sx, asserts>>
    /\ UNCHANGED notCont

\* std::tuple<Args...> p(args...); pair = stack_switch(cpair.sp, &p);
\* F's pending operator() returns the pair {holder's stack, &p} into F's
\* continuation, and the tuple of F's operator() is gone
resume(x) ==
    /\ kpc = "resume_switch"
    /\ tuples' = [tuples EXCEPT ![on] = x, ![cpair.sp] = 0]
    /\ on' = stack_switch(cpair.sp)
    /\ pairs' = [pairs EXCEPT !["fc"] = [sp |-> on, parm |-> on]]
    /\ cpair' = nullpair
    /\ arg' = x /\ got' = 0
    /\ kpc' = "F"
    /\ UNCHANGED <<allocated, deallocated, freed_on, sp, excp, cleanup_args_on,
                   exit_kind, thrown, exit_to, inflight, surfaced, g, yields,
                   terminated>>
    /\ UNCHANGED <<robj, sent, observed, wec, ptr, sx, asserts>>
    /\ UNCHANGED notCont

\* c = splice(std::move(c), f), f returning void: the parameter c of splice is
\* move-constructed from the holder's continuation
splice(o) ==
    /\ kpc = "yielded" /\ o \in Holders
    /\ ~is_terminated(pairs[o])
    /\ LET r == pilfer(pairs[o])
       IN  pairs' = [pairs EXCEPT ![o] = r.pair, !["sc"] = r.result]
    /\ robj' = o
    /\ kpc' = "splice"
    /\ UNCHANGED <<on, allocated, deallocated, freed_on, sp, excp, cleanup_args_on,
                   exit_kind, thrown, exit_to, inflight, surfaced, g, yields,
                   terminated>>
    /\ UNCHANGED <<cpair, tuples, sent, observed, arg, got, wec, ptr, sx, asserts>>
    /\ UNCHANGED notCont

\* execute_into(&f, c.pilfer().sp, &details::splice_trampoline<F>):
\* splice_trampoline(p, from) starts on c's stack with switch_pair r{from, 0}
splice_execute_into ==
    /\ kpc = "splice"
    /\ LET r == pilfer(pairs["sc"])
       IN  /\ pairs' = [pairs EXCEPT !["sc"] = r.pair]
           /\ on' = execute_into(r.result.sp)
    /\ cpair' = [sp |-> on, parm |-> null]
    /\ kpc' = "splice_trampoline"
    /\ UNCHANGED <<allocated, deallocated, freed_on, sp, excp, cleanup_args_on,
                   exit_kind, thrown, exit_to, inflight, surfaced, g, yields,
                   terminated>>
    /\ UNCHANGED <<tuples, robj, sent, observed, arg, got, wec, ptr, sx, asserts>>
    /\ UNCHANGED notCont

\* r.parm = get_address(f, tag<void>());  (f(); return 0;)   return r;
\* splice makes continuation<IntoSignature>(pair that came back)
splice_trampoline ==
    /\ kpc = "splice_trampoline"
    /\ on' = cpair.sp
    /\ pairs' = [pairs EXCEPT ![robj] = [sp |-> on, parm |-> null]]
    /\ cpair' = nullpair
    /\ kpc' = "yielded"
    /\ UNCHANGED <<allocated, deallocated, freed_on, sp, excp, cleanup_args_on,
                   exit_kind, thrown, exit_to, inflight, surfaced, g, yields,
                   terminated>>
    /\ UNCHANGED <<tuples, robj, sent, observed, arg, got, wec, ptr, sx, asserts>>
    /\ UNCHANGED notCont

\* signal_exit(std::move(c)): void signal_exit(continuation<Signature> c) {
\* splicecc(std::move(c), [] (continuation<...> c) {...}); }  the parameter c
\* of splicecc is move-constructed from the holder's continuation
signal_exit(o) ==
    /\ kpc = "yielded" /\ o \in Holders
    /\ ~is_terminated(pairs[o])
    /\ LET r == pilfer(pairs[o])
       IN  pairs' = [pairs EXCEPT ![o] = r.pair, !["sc"] = r.result]
    /\ sx' = TRUE
    /\ kpc' = "splicecc"
    /\ UNCHANGED <<on, allocated, deallocated, freed_on, sp, excp, cleanup_args_on,
                   exit_kind, thrown, exit_to, inflight, surfaced, g, yields,
                   terminated>>
    /\ UNCHANGED <<cpair, tuples, robj, sent, observed, arg, got, wec, ptr,
                   asserts>>
    /\ UNCHANGED notCont

\* execute_into(&f, c.pilfer().sp, &details::splicecc_trampoline<...>):
\* splicecc_trampoline(p, from) starts on c's stack with switch_pair r{from, 0}
splicecc_execute_into ==
    /\ kpc = "splicecc"
    /\ LET r == pilfer(pairs["sc"])
       IN  /\ pairs' = [pairs EXCEPT !["sc"] = r.pair]
           /\ on' = execute_into(r.result.sp)
    /\ cpair' = [sp |-> on, parm |-> null]
    /\ kpc' = "splicecc_trampoline"
    /\ UNCHANGED <<allocated, deallocated, freed_on, sp, excp, cleanup_args_on,
                   exit_kind, thrown, exit_to, inflight, surfaced, g, yields,
                   terminated>>
    /\ UNCHANGED <<tuples, robj, sent, observed, arg, got, wec, ptr, sx, asserts>>
    /\ UNCHANGED notCont

\* return f(from_cont(r)).pilfer();   the lambda's parameter c is from_cont(r)
splicecc_trampoline ==
    /\ kpc = "splicecc_trampoline"
    /\ pairs' = [pairs EXCEPT !["lc"] = cpair]
    /\ cpair' = nullpair
    /\ kpc' = "lambda"
    /\ UNCHANGED <<on, allocated, deallocated, freed_on, sp, excp, cleanup_args_on,
                   exit_kind, thrown, exit_to, inflight, surfaced, g, yields,
                   terminated>>
    /\ UNCHANGED <<tuples, robj, sent, observed, arg, got, wec, ptr, sx, asserts>>
    /\ UNCHANGED notCont

\* the lambda of signal_exit:
\* throw exit_exception(exit_continuation(std::move(c)));
\* the exception is in flight in the frames of F, suspended in operator()
signal_exit_lambda ==
    /\ kpc = "lambda"
    /\ LET r == pilfer(pairs["lc"])
       IN  /\ pairs' = [pairs EXCEPT !["lc"] = r.pair, !["exit_to"] = r.result]
           /\ exit_to' = r.result.sp
    /\ exit_kind' = "exit_exception"
    /\ kpc' = "F_unwinding"
    /\ UNCHANGED <<on, allocated, deallocated, freed_on, sp, excp, cleanup_args_on,
                   thrown, inflight, surfaced, g, yields, terminated>>
    /\ UNCHANGED <<cpair, tuples, robj, sent, observed, arg, got, wec, ptr, sx,
                   asserts>>
    /\ UNCHANGED notCont

\* ---- how F ends ----------------------------------------------------------------
\* the continuation F gives up when it leaves for dest: its own continuation c
\* to the creator, or the one to the other stack (F's own then goes to the
\* code of that stack)
given(ps, dest) ==
    IF dest = null THEN ps
    ELSE IF dest = "creator"
    THEN [ps EXCEPT !["fc"] = pilfer(ps["fc"]).pair,
                    !["exit_to"] = pilfer(ps["fc"]).result]
    ELSE [ps EXCEPT !["fo"] = pilfer(ps["fo"]).pair,
                    !["exit_to"] = pilfer(ps["fo"]).result,
                    !["fc"] = nullpair]

F_ends(kind, dest, e) ==
    /\ kpc = "F"
    /\ exit_kind' = kind /\ thrown' = e
    /\ pairs' = given(pairs, dest)
    /\ exit_to' = IF dest = null THEN null ELSE pairs'["exit_to"].sp
    /\ kpc' = IF kind = "return" THEN "F_ended" ELSE "F_unwinding"
    /\ UNCHANGED <<on, allocated, deallocated, freed_on, sp, excp, cleanup_args_on,
                   inflight, surfaced, g, yields, terminated>>
    /\ UNCHANGED <<cpair, tuples, robj, sent, observed, arg, got, wec, ptr, sx,
                   asserts>>
    /\ UNCHANGED notCont

\* F returns the continuation to switch to
F_return(dest) == F_ends("return", dest, null)

\* throw exit_exception(exit_continuation(std::move(c)));
F_exit(dest) == F_ends("exit_exception", dest, null)

\* an exception of another type is thrown in F
F_throw(e) == F_ends("exception", null, e)

\* the exception in flight reaches with_escape_continuation(f, c):
\* catch(...) { throw abnormal_exit_exception(std::move(c)); }
\* with ptr(std::current_exception()), which keeps the caught exception (and
\* the exit_continuation inside an exit_exception) alive
F_escape ==
    /\ kpc = "F_unwinding" /\ wec # null
    /\ ptr' = IF exit_kind = "exception" THEN thrown ELSE exit_kind
    /\ pairs' = given([pairs EXCEPT !["nested"] = pairs["exit_to"]], wec)
    /\ exit_to' = pairs'["exit_to"].sp
    /\ exit_kind' = "abnormal_exit_exception"
    /\ wec' = null
    /\ kpc' = "F_ended"
    /\ UNCHANGED <<on, allocated, deallocated, freed_on, sp, excp, cleanup_args_on,
                   thrown, inflight, surfaced, g, yields, terminated>>
    /\ UNCHANGED <<cpair, tuples, robj, sent, observed, arg, got, sx, asserts>>
    /\ UNCHANGED notCont

\* no handler in F: the exception leaves f(Continuation(pair))
F_unwinds ==
    /\ kpc = "F_unwinding" /\ wec = null
    /\ kpc' = "F_ended"
    /\ UNCHANGED <<on, allocated, deallocated, freed_on, sp, excp, cleanup_args_on,
                   exit_kind, thrown, exit_to, inflight, surfaced, g, yields,
                   terminated>>
    /\ UNCHANGED ovars
    /\ UNCHANGED notCont

\* sp = f(...).pilfer().sp;
\* } catch(abnormal_exit_exception& e) { sp = e.exit_to.pilfer().sp;
\*                                       cleanup_args.excp = e.nested_ptr();
\* } catch(exit_exception& e) { sp = e.exit_to.pilfer().sp; }
\* No handler matches another exception: it leaves startup_trampoline, the
\* outermost function of the coroutine's stack, and std::terminate is called.
startup_catches(kind) == kind \in {"return", "exit_exception", "abnormal_exit_exception"}

startup_trampoline_exit ==
    /\ kpc = "F_ended"
    /\ IF startup_catches(exit_kind)
       THEN /\ LET r == pilfer(pairs["exit_to"])
               IN  /\ sp' = r.result.sp
                   /\ pairs' = [pairs EXCEPT !["exit_to"] = r.pair]
            /\ excp' = IF exit_kind = "abnormal_exit_exception" THEN ptr ELSE excp
            /\ kpc' = "execute_into"
       ELSE /\ kpc' = "std_terminate"
            /\ UNCHANGED <<sp, excp, pairs>>
    /\ UNCHANGED <<on, allocated, deallocated, freed_on, cleanup_args_on, exit_kind,
                   thrown, exit_to, inflight, surfaced, g, yields, terminated>>
    /\ UNCHANGED <<cpair, tuples, robj, sent, observed, arg, got, wec, ptr, sx,
                   asserts>>
    /\ UNCHANGED notCont

\* assert(sp && "invalid target stack");   fails
startup_assert ==
    /\ kpc = "execute_into"
    /\ sp = null
    /\ asserts' = asserts \cup {"invalid target stack"}
    /\ kpc' = "abort"
    /\ UNCHANGED <<on, allocated, deallocated, freed_on, sp, excp, cleanup_args_on,
                   exit_kind, thrown, exit_to, inflight, surfaced, g, yields,
                   terminated>>
    /\ UNCHANGED <<pairs, cpair, tuples, robj, sent, observed, arg, got, wec, ptr,
                   sx>>
    /\ UNCHANGED notCont

\* assert(sp && "invalid target stack");   holds
\* return execute_into(&cleanup_args, sp, &cleanup_trampoline<Deleter>);
cleanupOnOwnStack(dest_sp) == "coroutine"
cleanup_stack(dest_sp) == dest_sp

startup_execute_into ==
    /\ kpc = "execute_into"
    /\ sp # null
    /\ on' = execute_into(cleanup_stack(sp))
    /\ kpc' = "cleanup_trampoline"
    /\ UNCHANGED <<allocated, deallocated, freed_on, sp, excp, cleanup_args_on,
                   exit_kind, thrown, exit_to, inflight, surfaced, g, yields,
                   terminated>>
    /\ UNCHANGED ovars
    /\ UNCHANGED notCont

\* ---- cleanup_trampoline --------------------------------------------------------
\* auto argsp = ...; auto g = guard([&]{ ... });
cleanup_trampoline ==
    /\ kpc = "cleanup_trampoline"
    /\ g' = TRUE
    /\ kpc' = "rethrow"
    /\ UNCHANGED <<on, allocated, deallocated, freed_on, sp, excp, cleanup_args_on,
                   exit_kind, thrown, exit_to, inflight, surfaced, yields,
                   terminated>>
    /\ UNCHANGED ovars
    /\ UNCHANGED notCont

\* if (argsp->excp) std::rethrow_exception(argsp->excp);
\* return switch_pair{{0}, 0};
cleanup_rethrow ==
    /\ kpc = "rethrow"
    /\ inflight' = excp
    /\ kpc' = IF excp # null THEN "unwinding" ELSE "returning"
    /\ UNCHANGED <<on, allocated, deallocated, freed_on, sp, excp, cleanup_args_on,
                   exit_kind, thrown, exit_to, surfaced, g, yields, terminated>>
    /\ UNCHANGED ovars
    /\ UNCHANGED notCont

\* the guard's function, run when cleanup_trampoline is left:
\* Deleter d(std::move(argsp->deleter)); argsp->~cleanup_trampoline_args();
\* d();     with d = [=] { alloc.deallocate(stackp); }
guard_function ==
    /\ kpc \in {"unwinding", "returning"}
    /\ guard_runs(g)
    /\ g' = FALSE
    /\ excp' = null /\ cleanup_args_on' = null
    /\ deallocated' = deallocated + 1
    /\ freed_on' = on
    /\ UNCHANGED <<kpc, on, allocated, sp, exit_kind, thrown, exit_to, inflight,
                   surfaced, yields, terminated>>
    /\ UNCHANGED ovars
    /\ UNCHANGED notCont

\* cleanup_trampoline is left: the null switch_pair goes into the continuation
\* of the operation that is pending on the destination stack (whose tuple is
\* gone when it returns), which makes it terminated(), or the exception goes
\* on into the code that runs on the destination stack
cleanup_leaves ==
    /\ kpc \in {"unwinding", "returning"}
    /\ ~g
    /\ surfaced' = inflight
    /\ terminated' = TRUE
    /\ pairs' = IF kpc = "returning" /\ on = "creator"
                THEN [pairs EXCEPT ![robj] = nullpair] ELSE pairs
    /\ tuples' = [tuples EXCEPT ![on] = 0, !["coroutine"] = 0]
    /\ kpc' = "done"
    /\ UNCHANGED <<on, allocated, deallocated, freed_on, sp, excp, cleanup_args_on,
                   exit_kind, thrown, exit_to, inflight, g, yields>>
    /\ UNCHANGED <<cpair, robj, sent, observed, arg, got, wec, ptr, sx, asserts>>
    /\ UNCHANGED notCont

ContNext ==
    \/ create_context
    \/ startup_trampoline
    \/ F_take
    \/ \E dest \in Destinations : with_escape_continuation(dest)
    \/ F_pilfer
    \/ \E y \in Yielded : F_yield(y)
    \/ \E o \in Holders : take_result(o)
    \/ \E o \in Holders, d \in Holders : rhs_pilfer(o, d)
    \/ continuation_move
    \/ \E o \in Holders : resume_pilfer(o)
    \/ \E x \in Resumed : resume(x)
    \/ \E o \in Holders : splice(o)
    \/ splice_execute_into
    \/ splice_trampoline
    \/ \E o \in Holders : signal_exit(o)
    \/ splicecc_execute_into
    \/ splicecc_trampoline
    \/ signal_exit_lambda
    \/ \E dest \in Destinations : F_return(dest)
    \/ \E dest \in Destinations : F_exit(dest)
    \/ \E e \in Exceptions : F_throw(e)
    \/ F_escape
    \/ F_unwinds
    \/ startup_trampoline_exit
    \/ startup_assert
    \/ startup_execute_into
    \/ cleanup_trampoline
    \/ cleanup_rethrow
    \/ guard_function
    \/ cleanup_leaves

SpecCont == ContInit /\ [][ContNext]_vars

\* ---- C19 ---------------------------------------------------------------------
ExitPaths == {"return", "exit_exception", "abnormal_exit_exception"}

C19Step ==
    deallocated' # deallocated =>
        /\ deallocated' = 1
        /\ kpc \in {"unwinding", "returning"}
        /\ on = sp /\ on # "coroutine"

\* C19: the stack allocated by create_context is deallocated at most once, the
\* deleter runs only inside cleanup_trampoline while execution is on the
\* destination stack (never on the stack it frees, and no code runs on that
\* stack afterwards), and when the continuation has terminated by a returned
\* destination, an exit_exception or an abnormal_exit_exception the deleter
\* has run exactly once.
C19_DeleterOnce ==
    /\ [][C19Step]_vars
    /\ [](deallocated <= allocated /\ deallocated <= 1)
    /\ [](deallocated = 1 => on # "coroutine")
    /\ [](terminated /\ exit_kind \in ExitPaths => deallocated = 1 /\ freed_on = sp)

\* a coroutine that yielded, was resumed and left by an exit_exception has
\* terminated with its stack freed on the destination stack
C19_Witness ==
    /\ terminated /\ exit_kind = "exit_exception" /\ yields > 0
    /\ deallocated = 1 /\ freed_on = sp

\* ---- C20 ---------------------------------------------------------------------
\* C20: when F has thrown and the run of the coroutine is over, the exception
\* F threw has surfaced in the code on the destination stack and F's stack has
\* been deallocated.
C20_ThrowSurfaces ==
    (thrown # null /\ kpc \in {"done", "std_terminate"}) =>
        /\ surfaced = thrown
        /\ deallocated = 1

\* ---- C21 ---------------------------------------------------------------------
\* the values the holder took, in the order it took them
Values(seq) == [k \in DOMAIN seq |-> seq[k].v]

C21Step ==
    /\ yields' # yields =>
          /\ has_data(pairs'[robj])
          /\ operator_star(pairs'[robj], tuples') = sent'[Len(sent')]
    /\ kpc = "resume_switch" /\ kpc' = "F" =>
          /\ has_data(pairs'["fc"])
          /\ operator_star(pairs'["fc"], tuples') = arg'
    /\ got' # got /\ got' # 0 => got' = arg
    /\ observed' # observed =>
          observed' = Append(observed, [i |-> Len(sent), v |-> sent[Len(sent)]])

\* C21: when F switches back with y the holder's continuation has_data() and
\* operator* gives y; when the holder resumes with x, operator* in F gives x;
\* the holder takes the values in the order F passed them; and after F has
\* returned to its creator (having passed 1, 2, 3 or anything else) every
\* continuation of the coroutine is terminated(), without data, and the stack
\* has been freed once.
C21_ValuesCross ==
    /\ [][C21Step]_vars
    /\ [](\A k \in DOMAIN observed :
            /\ observed[k].v = sent[observed[k].i]
            /\ \A j \in DOMAIN observed : j < k => observed[j].i < observed[k].i)
    /\ [](Len(observed) = Len(sent) => Values(observed) = sent)
    /\ [](terminated /\ exit_kind = "return" /\ sp = "creator" =>
            /\ \A o \in Holders : is_terminated(pairs[o]) /\ ~has_data(pairs[o])
            /\ deallocated = 1 /\ on = "creator")

\* F passed 1, 2, 3 and returned to its creator, which took 1, 2, 3 and holds
\* a terminated continuation, the stack freed
C21_Witness ==
    /\ terminated /\ exit_kind = "return" /\ sp = "creator"
    /\ sent = <<1, 2, 3>> /\ Values(observed) = <<1, 2, 3>>
    /\ got = 4
    /\ \A o \in Holders : is_terminated(pairs[o])
    /\ deallocated = 1

\* ---- C22 ---------------------------------------------------------------------
\* the continuation objects that hold the stack pointer of stack s
HoldersOf(s) == {o \in Objects : pairs[o].sp = s}

\* C22: at any time the stack pointer of a suspended stack is held by at most
\* one continuation object, and while a pair taken out of an object by
\* pilfer() (in a move construction, a move assignment, operator(), splice or
\* splicecc) is on its way, no object holds that stack pointer: the source was
\* left terminated().
C22_OneOwner ==
    /\ \A s \in Stacks : Cardinality(HoldersOf(s)) <= 1
    /\ ~is_terminated(cpair) => HoldersOf(cpair.sp) = {}

\* the coroutine was moved from c to c2, resumed through c2 and has come back
\* to it twice, c staying terminated
C22_Witness ==
    /\ kpc = "yielded" /\ yields = 3 /\ robj = "c2"
    /\ HoldersOf("coroutine") = {"c2"}
    /\ is_terminated(pairs["c"])

\* ---- C25 ---------------------------------------------------------------------
\* the continuation and exit_continuation objects that are destroyed by the
\* time a signal_exit is over
Destroyed == {"c", "c2", "fc", "sc", "lc", "exit_to", "nested"}

\* C25: when signal_exit has been called on a live continuation and the run is
\* over, the exit_exception was caught by startup_trampoline, the coroutine's
\* stack was freed exactly once by the cleanup on the caller's stack, control
\* is back in the caller of signal_exit with no exception, no assertion failed
\* and every continuation and exit_continuation object is terminated().
C25_SignalExitTerminates ==
    (sx /\ kpc \in {"done", "abort", "std_terminate"}) =>
        /\ kpc = "done" /\ exit_kind = "exit_exception"
        /\ on = "creator" /\ sp = "creator" /\ surfaced = null
        /\ deallocated = 1 /\ freed_on = "creator"
        /\ asserts = {}
        /\ \A o \in Destroyed : is_terminated(pairs[o])

====
